---- MODULE Spec2Model ----
(***************************************************************************)
(* second-brain backend: the link ingestion pipeline (POST /links), the    *)
(* CRUD handlers on links, the tag classifier and the vector search        *)
(* (match_links), as a state machine over the relational store.            *)
(*                                                                         *)
(* Every handler is an async function: each `await` is a point where       *)
(* another request may run, so a handler is a sequence of steps, one per   *)
(* awaited call, and the steps of different requests interleave.           *)
(***************************************************************************)
EXTENDS Integers, Sequences, FiniteSets, TLC

(***************************************************************************)
(* Bounds of the model                                                     *)
(***************************************************************************)
\* requests issued in one behaviour
MaxReqs == 3
\* longest list the tag generation service answers with (generateTags spec)
MaxTagItems == 6
\* rows in the store the vector search is run against (match_links spec)
MaxStore == 3

(***************************************************************************)
(* Program constants                                                       *)
(***************************************************************************)
\* openai.utils.ts:4
EMBEDDING_DIMENSIONS == 1536
\* openai.utils.ts:167  .slice(0, 5)
MaxTags == 5
\* chat.controller.ts:33-34
ChatThreshold == 0
ChatCount == 5

\* openai.utils.ts:7-23
AVAILABLE_TAGS ==
  << "Article", "Blog", "News", "Tutorial", "Documentation", "Video", "Image",
     "Social Media", "Research", "Tool", "Product", "Forum", "Discussion",
     "Review", "Music" >>

\* openai.utils.ts:171 and :178
DefaultTags == << "Article", "Blog" >>

\* openai.utils.ts:90
SummaryPlaceholder == "No summary available due to processing error."

\* supabase-setup.sql:47-54: the rows the setup script seeds public.tags with
SeedTags == { "Image", "Video", "News", "Blog", "Music", "Social Media Post" }

\* JavaScript null, for the nullable text columns
Null == "<null>"

Range(s) == { s[i] : i \in 1..Len(s) }

(***************************************************************************)
(* String.prototype.toLowerCase on the strings of the model: the           *)
(* vocabulary, the spellings of it the generation service is given to      *)
(* answer with, and strings outside it.                                    *)
(***************************************************************************)
ToLower(s) ==
  CASE s = "Article" -> "article"
    [] s = "Blog" -> "blog"
    [] s = "BLOG" -> "blog"
    [] s = "News" -> "news"
    [] s = "NEWS" -> "news"
    [] s = "Tutorial" -> "tutorial"
    [] s = "Documentation" -> "documentation"
    [] s = "Video" -> "video"
    [] s = "Image" -> "image"
    [] s = "Social Media" -> "social media"
    [] s = "SOCIAL MEDIA" -> "social media"
    [] s = "Research" -> "research"
    [] s = "Tool" -> "tool"
    [] s = "Product" -> "product"
    [] s = "Forum" -> "forum"
    [] s = "Discussion" -> "discussion"
    [] s = "Review" -> "review"
    [] s = "Music" -> "music"
    [] s = "Social Media Post" -> "social media post"
    [] s = "Podcast" -> "podcast"
    [] OTHER -> s

(***************************************************************************)
(* generateTags (openai.utils.ts:99-180)                                   *)
(*                                                                         *)
(* The text the generation service answers with is modelled by what the    *)
(* three parsers of generateTags make of it:                               *)
(*   kind   "error"    the API call throws                                 *)
(*          "empty"    content is null or '' (replaced by '[]')            *)
(*          "array"    JSON.parse yields an array, `items`                 *)
(*          "nonarray" JSON.parse yields a value that is no array          *)
(*          "invalid"  JSON.parse throws                                   *)
(*   inner  what the bracket regex finds in a "nonarray" text: "none" (no  *)
(*          match or an empty group), "items" (the group parses to         *)
(*          `items`),                                                      *)
(*          "bad" (parsing the group throws)                               *)
(*   split  what the comma-split fallback makes of the text                *)
(* An array element that is no string (a number, null, an object) is       *)
(* NotAString.                                                             *)
(***************************************************************************)
NotAString == "<number>"

\* openai.utils.ts:124-153
ParseTags(resp) ==
  CASE resp.kind = "empty" -> << >>
    [] resp.kind = "array" -> resp.items
    [] resp.kind = "nonarray" ->
         IF resp.inner = "items" THEN resp.items
         ELSE IF resp.inner = "bad" THEN resp.split
         ELSE << >>
    [] OTHER -> resp.split

\* openai.utils.ts:157-159  the filter's predicate
IsValidTag(tag) ==
  \E i \in 1..Len(AVAILABLE_TAGS) : ToLower(AVAILABLE_TAGS[i]) = ToLower(tag)

\* CorrectCase without the lookup of the canonical spelling: the name as the
\* service wrote it
CorrectCase_AsGiven(tag) == tag

\* openai.utils.ts:160-166  the map's function: Array.find gives the first match
CorrectCase(tag) ==
  IF IsValidTag(tag)
  THEN AVAILABLE_TAGS[CHOOSE i \in 1..Len(AVAILABLE_TAGS) :
         /\ ToLower(AVAILABLE_TAGS[i]) = ToLower(tag)
         /\ \A j \in 1..(i - 1) : ToLower(AVAILABLE_TAGS[j]) # ToLower(tag)]
  ELSE tag

\* openai.utils.ts:156-159
FilterValid(parsed) == SelectSeq(parsed, IsValidTag)

\* openai.utils.ts:167
SliceTags(s) == SubSeq(s, 1, IF Len(s) < MaxTags THEN Len(s) ELSE MaxTags)

\* openai.utils.ts:156-167
ValidTags(parsed) ==
  LET kept == FilterValid(parsed)
  IN  SliceTags([i \in 1..Len(kept) |-> CorrectCase(kept[i])])

\* openai.utils.ts:99-180.  tag.toLowerCase() on an element that is no string
\* throws a TypeError, which the outer catch turns into the default pair.
GenerateTags(resp) ==
  IF resp.kind = "error" THEN DefaultTags
  ELSE LET parsed == ParseTags(resp)
       IN  IF \E i \in 1..Len(parsed) : parsed[i] = NotAString THEN DefaultTags
           ELSE IF Len(ValidTags(parsed)) = 0 THEN DefaultTags
           ELSE ValidTags(parsed)

(***************************************************************************)
(* generateSummary (openai.utils.ts:64-92)                                 *)
(***************************************************************************)
ApiError == "<api error>"

\* String.prototype.trim on the texts of the model
Trim(s) ==
  CASE s = "   " -> ""
    [] s = " A short summary. " -> "A short summary."
    [] OTHER -> s

\* GenerateSummary without the placeholder of the catch block
GenerateSummary_NoPlaceholder(resp) ==
  IF resp = ApiError \/ resp = Null THEN "" ELSE Trim(resp)

\* openai.utils.ts:85-90
GenerateSummary(resp) ==
  IF resp = ApiError THEN SummaryPlaceholder
  ELSE Trim(IF resp = Null THEN "" ELSE resp)

(***************************************************************************)
(* generateEmbedding (openai.utils.ts:30-57)                               *)
(*                                                                         *)
(* A vector is modelled by what the program and the store read of it: its  *)
(* number of components, whether all are finite, its direction (what the   *)
(* cosine distance depends on) and the text it was computed from.          *)
(***************************************************************************)
NoEmbedding ==
  [present |-> FALSE, dim |-> 0, finite |-> TRUE, dir |-> 0, src |-> << >>]

\* openai.utils.ts:43 and :48
ValidEmbedding(v) ==
  /\ v.present
  /\ v.dim = EMBEDDING_DIMENSIONS
  /\ v.finite

\* GenerateEmbedding without the checks of lines 43 and 48: whatever vector
\* the service answers with is returned
GenerateEmbedding_Unchecked(text, resp) ==
  IF resp.kind = "error" THEN [ok |-> FALSE, vec |-> NoEmbedding]
  ELSE [ok |-> TRUE,
        vec |-> [present |-> TRUE, dim |-> resp.dim, finite |-> resp.finite,
                 dir |-> resp.dir, src |-> text]]

\* openai.utils.ts:30-57: the vector, or a throw
GenerateEmbedding(text, resp) ==
  LET v == [present |-> TRUE, dim |-> resp.dim, finite |-> resp.finite,
            dir |-> resp.dir, src |-> text]
  IN  IF resp.kind = "error" \/ ~ValidEmbedding(v)
      THEN [ok |-> FALSE, vec |-> NoEmbedding]
      ELSE [ok |-> TRUE, vec |-> v]

(***************************************************************************)
(* extractUrlMetadata, extractUrlContent (utils/url.utils)                 *)
(*                                                                         *)
(* A text is a tuple of its parts, the empty string the empty tuple.       *)
(* A fetch is "error" (axios throws: unreachable, timeout, too large) or   *)
(* the page it returned.                                                   *)
(***************************************************************************)
FetchError == [kind |-> "error", title |-> "", image |-> "", text |-> << >>]

\* part_004:22-23
Domain(url) ==
  CASE url = "https://www.a.example/post" -> "a.example"
    [] url = "https://b.example/" -> "b.example"
    [] OTHER -> "unknown"

\* part_004:16-86.  '' || null is null
ExtractUrlMetadata(url, fetch) ==
  IF fetch.kind = "error"
  THEN [title |-> Null, image |-> Null, domain |-> Domain(url)]
  ELSE [title |-> IF fetch.title = "" THEN Null ELSE fetch.title,
        image |-> IF fetch.image = "" THEN Null ELSE fetch.image,
        domain |-> Domain(url)]

\* part_004:173
FailedContent(url) == << "Failed to extract content from", url >>
\* part_004:170
NoContent(url) == << "Could not extract meaningful content from", url >>

\* part_004:159-162: runs of white space become one blank, then trim()
TrimText(t) == IF t = << "   " >> THEN << >> ELSE t

\* ExtractUrlContent without the fallback of line 170
ExtractUrlContent_NoFallback(url, fetch) ==
  IF fetch.kind = "error" THEN FailedContent(url) ELSE TrimText(fetch.text)

\* part_004:93-175
ExtractUrlContent(url, fetch) ==
  IF fetch.kind = "error" THEN FailedContent(url)
  ELSE IF TrimText(fetch.text) = << >> THEN NoContent(url)
  ELSE TrimText(fetch.text)

(***************************************************************************)
(* Inputs of the requests and answers of the external services             *)
(***************************************************************************)
Users == { "alice", "bob" }
Urls == { "https://www.a.example/post" }
\* a body whose url z.string().url() rejects
BadUrl == "not a url"

\* part_005:16-18  createLinkSchema
ValidUrl(url) == url \in Urls

Page(title, image, text) ==
  [kind |-> "page", title |-> title, image |-> image, text |-> text]
FullPage == Page("Page title", "https://www.a.example/og.png", << "Body text" >>)
\* a page without title, preview image or text
BarePage == Page("", "", << >>)
\* a page whose text is white space only
BlankPage == Page("Page title", "", << "   " >>)
Fetches == { FetchError, FullPage, BarePage, BlankPage }

GoodSummary == " A short summary. "
SummaryResponses == { ApiError, Null, "   ", GoodSummary }

TagResp(kind, items, inner, split) ==
  [kind |-> kind, items |-> items, inner |-> inner, split |-> split]
GoodTagResp == TagResp("array", << "NEWS", "Tutorial" >>, "none", << >>)
TagResponses ==
  { TagResp("error", << >>, "none", << >>),
    GoodTagResp,
    TagResp("invalid", << >>, "none", << "Podcast" >>) }

\* directions of the vectors, in steps of 30 degrees: 0, 60, 90 and 180 degrees
Dirs == { 0, 2, 3, 6 }
EmbResp(kind, dim, finite, dir) ==
  [kind |-> kind, dim |-> dim, finite |-> finite, dir |-> dir]
EmbeddingResponses ==
  { EmbResp("error", 0, TRUE, 0),
    EmbResp("vector", EMBEDDING_DIMENSIONS - 1, TRUE, 0),
    EmbResp("vector", EMBEDDING_DIMENSIONS, FALSE, 0),
    EmbResp("vector", EMBEDDING_DIMENSIONS, TRUE, 0) }

(***************************************************************************)
(* State                                                                   *)
(*   links      public.links: id -> row                                    *)
(*   tags       public.tags: the names (name is UNIQUE; a tag's id stands  *)
(*              for its name)                                              *)
(*   linkToTag  public.link_to_tag: pairs <<link id, tag name>>            *)
(*   nextId     the ids uuid_generate_v4() has handed out                  *)
(*   clock      now() of the store                                         *)
(*   req        the requests: each one's handler, position and locals      *)
(*   env        the run's environment: how many requests the clients keep  *)
(*              in flight at once (cap) and the answers the page fetches   *)
(*              and the generation service may give                        *)
(*   tagResp, tagOut      an answer of the generation service and what     *)
(*                        generateTags returns for it                      *)
(*   mq, mResult          a call of match_links and the rows it returns    *)
(***************************************************************************)
VARIABLES links, tags, linkToTag, nextId, clock, req, env,
          tagResp, tagOut, mq, mResult

vars ==
  << links, tags, linkToTag, nextId, clock, req, env, tagResp, tagOut, mq, mResult >>
store == << links, tags, linkToTag, nextId, clock >>
probes == << env, tagResp, tagOut, mq, mResult >>

Reqs == 1..MaxReqs

\* a request that has not been issued: no handler, no locals
IdleReq ==
  [kind |-> "none", pc |-> "idle", user |-> "-", url |-> "-", id |-> 0,
   title |-> Null, image |-> Null, content |-> << >>, summary |-> Null,
   tagList |-> << >>, setTags |-> FALSE, i |-> 0, embedding |-> NoEmbedding,
   status |-> 0, fault |-> "none",
   \* what the request has been through, kept for the properties below:
   \* the fetches and generation calls that failed, whether the embedding
   \* service's answer was unusable, the id of the row the request inserted
   \* and the calls of createTagsForLink it made
   degraded |-> {}, embFailed |-> FALSE, inserted |-> 0, calls |-> 0,
   \* the fetches and service calls the handler has issued so far
   called |-> {},
   \* GET and chat handlers: the parameter (tag name, query), the calls of a
   \* Promise.all still pending, the records and the answer of the response
   param |-> "-", pending |-> {}, out |-> << >>, answer |-> Null]

\* res.status(status).json(...): the handler returns and its locals are gone
Finish(rec, status, fault) ==
  [IdleReq EXCEPT !.kind = rec.kind, !.pc = "done", !.user = rec.user,
                  !.url = rec.url, !.id = rec.id,
                  !.status = status, !.fault = fault,
                  !.degraded = rec.degraded, !.embFailed = rec.embFailed,
                  !.inserted = rec.inserted, !.calls = rec.calls,
                  !.called = rec.called]

NoTagResp == TagResp("empty", << >>, "none", << >>)
NoTagOut == [done |-> FALSE, tags |-> << >>]
NoQuery == [dir |-> 0, threshold |-> 0, count |-> 0, user |-> "-"]
NoResult == [done |-> FALSE, rows |-> << >>]

InitStore ==
  /\ links = << >>
  /\ tags = SeedTags
  /\ linkToTag = {}
  /\ nextId = 1
  /\ clock = 1

InitProbes ==
  /\ tagResp = NoTagResp
  /\ tagOut = NoTagOut
  /\ mq = NoQuery
  /\ mResult = NoResult

\* Pages are reachable and the generation service answers summaries and tags
\* as asked; embedding calls and store statements may fail.
CalmEnv ==
  [cap |-> 1, fetches |-> { FullPage }, summaries |-> { GoodSummary },
   tagAnswers |-> { GoodTagResp }]

\* Every outcome of the page fetches and of the generation calls.
RoughEnv ==
  [cap |-> 1, fetches |-> Fetches, summaries |-> SummaryResponses,
   tagAnswers |-> TagResponses]

\* the clients send one request at a time, MaxReqs in all
Init ==
  /\ InitStore
  /\ req = [r \in Reqs |-> IdleReq]
  /\ env = CalmEnv
  /\ InitProbes

\* one POST /links against every outcome of the fetches and generation calls
InitIngest ==
  /\ InitStore
  /\ req = [r \in Reqs |-> IdleReq]
  /\ env = RoughEnv
  /\ InitProbes

InFlight == { r \in Reqs : req[r].pc \notin { "idle", "done" } }

\* requests are issued in the order of their numbers
\* the users are interchangeable: the first request is alice's
StartUsers(r) == IF r = 1 THEN { "alice" } ELSE Users

CanStart(r) ==
  /\ req[r].pc = "idle"
  /\ \A q \in Reqs : q < r => req[q].pc # "idle"
  /\ Cardinality(InFlight) < env.cap

(***************************************************************************)
(* createLink (link.controller.ts:133-236)                                 *)
(***************************************************************************)
\* link.controller.ts:136-156: the body is validated before the first await
StartCreate(r) ==
  /\ CanStart(r)
  /\ \E user \in StartUsers(r), url \in Urls \cup { BadUrl } :
       LET new == [IdleReq EXCEPT !.kind = "create", !.user = user, !.url = url]
       IN  req' = [req EXCEPT ![r] =
                     IF ValidUrl(url)
                     THEN [new EXCEPT !.pc = "meta", !.called = { "meta" }]
                     ELSE [new EXCEPT !.pc = "done", !.status = 400]]
  /\ UNCHANGED << store, probes >>

\* link.controller.ts:159
CreateMeta(r) ==
  /\ req[r].kind = "create" /\ req[r].pc = "meta"
  /\ \E fetch \in env.fetches :
       LET m == ExtractUrlMetadata(req[r].url, fetch)
       IN  req' = [req EXCEPT ![r].title = m.title, ![r].image = m.image,
                              ![r].degraded = IF fetch.kind = "error"
                                              THEN @ \cup { "meta" } ELSE @,
                              ![r].called = @ \cup { "content" },
                              ![r].pc = "content"]
  /\ UNCHANGED << store, probes >>

\* link.controller.ts:162
CreateContent(r) ==
  /\ req[r].kind = "create" /\ req[r].pc = "content"
  /\ \E fetch \in env.fetches :
       req' = [req EXCEPT ![r].content = ExtractUrlContent(req[r].url, fetch),
                          ![r].degraded = IF fetch.kind = "error"
                                          THEN @ \cup { "content" } ELSE @,
                          ![r].called = @ \cup { "summary" },
                          ![r].pc = "summary"]
  /\ UNCHANGED << store, probes >>

\* link.controller.ts:165
CreateSummary(r) ==
  /\ req[r].kind = "create" /\ req[r].pc = "summary"
  /\ \E resp \in env.summaries :
       req' = [req EXCEPT ![r].summary = GenerateSummary(resp),
                          ![r].degraded = IF resp = ApiError
                                          THEN @ \cup { "summary" } ELSE @,
                          ![r].called = @ \cup { "tags" },
                          ![r].pc = "tags"]
  /\ UNCHANGED << store, probes >>

\* link.controller.ts:168
CreateTags(r) ==
  /\ req[r].kind = "create" /\ req[r].pc = "tags"
  /\ \E resp \in env.tagAnswers :
       req' = [req EXCEPT ![r].tagList = GenerateTags(resp),
                          ![r].degraded = IF resp.kind = "error"
                                          THEN @ \cup { "tags" } ELSE @,
                          ![r].called = @ \cup { "embed" },
                          ![r].pc = "embed"]
  /\ UNCHANGED << store, probes >>

\* NewRow without the embedding column
NewRow_WithoutEmbedding(r, t) ==
  [url |-> req[r].url, title |-> req[r].title, image |-> req[r].image,
   domain |-> Domain(req[r].url), summary |-> req[r].summary,
   user |-> req[r].user, embedding |-> NoEmbedding, createdAt |-> t]

\* the row INSERT INTO public.links writes (link.controller.ts:180-184)
NewRow(r, t) ==
  [url |-> req[r].url, title |-> req[r].title, image |-> req[r].image,
   domain |-> Domain(req[r].url), summary |-> req[r].summary,
   user |-> req[r].user, embedding |-> req[r].embedding, createdAt |-> t]

\* an answer of the embedding service that is no usable vector: the call
\* errors, the length is not 1536, or a component is NaN or not finite
AnswerFails(resp) ==
  resp.kind = "error" \/ resp.dim # EMBEDDING_DIMENSIONS \/ ~resp.finite

\* CreateEmbed with the row written before the embedding is there: a failed
\* embedding leaves the row behind
CreateEmbed_InsertFirst(r) ==
  /\ req[r].kind = "create" /\ req[r].pc = "embed"
  /\ \E resp \in EmbeddingResponses :
       LET g == GenerateEmbedding(req[r].content, resp)
           seen == [req[r] EXCEPT !.embFailed = AnswerFails(resp)]
       IN  IF g.ok /\ g.vec.dim = EMBEDDING_DIMENSIONS
           THEN /\ req' = [req EXCEPT ![r] =
                             [seen EXCEPT !.embedding = g.vec, !.pc = "insert"]]
                /\ UNCHANGED store
           ELSE /\ links' = links @@ (nextId :> NewRow(r, clock))
                /\ clock' = clock + 1
                /\ nextId' = nextId + 1
                /\ req' = [req EXCEPT ![r] =
                             Finish([seen EXCEPT !.inserted = nextId], 500, "embed")]
                /\ UNCHANGED << tags, linkToTag >>
  /\ UNCHANGED probes

\* link.controller.ts:171-177 and, for the throw of generateEmbedding, :225-230
CreateEmbed(r) ==
  /\ req[r].kind = "create" /\ req[r].pc = "embed"
  /\ \E resp \in EmbeddingResponses :
       LET g == GenerateEmbedding(req[r].content, resp)
           seen == [req[r] EXCEPT !.embFailed = AnswerFails(resp)]
       IN  req' = [req EXCEPT ![r] =
                     IF g.ok /\ g.vec.dim = EMBEDDING_DIMENSIONS
                     THEN [seen EXCEPT !.embedding = g.vec, !.pc = "insert"]
                     ELSE Finish(seen, 500, "embed")]
  /\ UNCHANGED << store, probes >>

\* CreateInsert that writes no second row for a url its owner has stored:
\* the request goes on with the row that is there
CreateInsert_OncePerUrl(r) ==
  /\ req[r].kind = "create" /\ req[r].pc = "insert"
  /\ LET same == { id \in DOMAIN links : /\ links[id].url = req[r].url
                                         /\ links[id].user = req[r].user }
         next == [IdleReq EXCEPT !.kind = "create", !.pc = "find",
                                 !.user = req[r].user, !.url = req[r].url,
                                 !.tagList = req[r].tagList,
                                 !.degraded = req[r].degraded,
                                 !.embFailed = req[r].embFailed,
                                 !.called = req[r].called]
     IN  \/ /\ same = {}
            /\ links' = links @@ (nextId :> NewRow(r, clock))
            /\ clock' = clock + 1
            /\ nextId' = nextId + 1
            /\ req' = [req EXCEPT ![r] = [next EXCEPT !.inserted = nextId]]
            /\ UNCHANGED << tags, linkToTag >>
         \/ /\ same # {}
            /\ \E id \in same : req' = [req EXCEPT ![r] = [next EXCEPT !.inserted = id]]
            /\ UNCHANGED store
         \/ /\ req' = [req EXCEPT ![r] = Finish(req[r], 500, "insert")]
            /\ UNCHANGED store
  /\ UNCHANGED probes

\* link.controller.ts:180-184; id DEFAULT uuid_generate_v4(), created_at
\* DEFAULT now() (supabase-setup.sql:16, :23)
CreateInsert(r) ==
  /\ req[r].kind = "create" /\ req[r].pc = "insert"
  /\ \/ /\ links' = links @@ (nextId :> NewRow(r, clock))
        /\ clock' = clock + 1
        /\ nextId' = nextId + 1
        /\ req' = [req EXCEPT ![r] =
                     [IdleReq EXCEPT !.kind = "create", !.pc = "find",
                                     !.user = req[r].user, !.url = req[r].url,
                                     !.tagList = req[r].tagList,
                                     !.degraded = req[r].degraded,
                                     !.embFailed = req[r].embFailed,
                                     !.called = req[r].called,
                                     !.inserted = nextId]]
        /\ UNCHANGED << tags, linkToTag >>
     \/ \* the store rejects the statement
        /\ req' = [req EXCEPT ![r] = Finish(req[r], 500, "insert")]
        /\ UNCHANGED store
  /\ UNCHANGED probes

\* prisma.link.findFirst({where: {url, userId}, orderBy: {createdAt: 'desc'}})
FindFirst(url, user) ==
  LET match == { id \in DOMAIN links :
                   links[id].url = url /\ links[id].user = user }
  IN  { id \in match :
          \A other \in match : links[other].createdAt <= links[id].createdAt }

\* link.controller.ts:187-199
CreateFind(r) ==
  /\ req[r].kind = "create" /\ req[r].pc = "find"
  /\ \/ /\ FindFirst(req[r].url, req[r].user) # {}
        /\ \E id \in FindFirst(req[r].url, req[r].user) :
             \* :202 createTagsForLink(newLink.id, suggestedTags)
             req' = [req EXCEPT ![r].id = id, ![r].i = 1, ![r].calls = @ + 1,
                                ![r].pc = IF req[r].tagList = << >>
                                          THEN "respond" ELSE "upsert"]
     \/ /\ FindFirst(req[r].url, req[r].user) = {}
        /\ req' = [req EXCEPT ![r] = Finish(req[r], 500, "race")]
     \/ req' = [req EXCEPT ![r] = Finish(req[r], 500, "find")]
  /\ UNCHANGED << store, probes >>

(***************************************************************************)
(* createTagsForLink (link.controller.ts:34-56), one await per step        *)
(***************************************************************************)
\* link.controller.ts:39-43.  prisma.tag.upsert with an empty `update` is
\* not sent as one INSERT .. ON CONFLICT statement: the client reads the row
\* by name and, when there is none, inserts it with a second statement
\* (TagCreate).  This is the read.
TagUpsert(r) ==
  /\ req[r].pc = "upsert"
  /\ \/ /\ req[r].tagList[req[r].i] \in tags
        /\ req' = [req EXCEPT ![r].pc = "link"]
     \/ /\ req[r].tagList[req[r].i] \notin tags
        /\ req' = [req EXCEPT ![r].pc = "tagCreate"]
     \/ \* the store fails: caught at :52, rethrown, answered 500 by the caller
        req' = [req EXCEPT ![r] = Finish(req[r], 500, "attach")]
  /\ UNCHANGED << store, probes >>

\* link.controller.ts:39-43, the insert of the upsert; name is UNIQUE
\* (supabase-setup.sql:31): inserting a name that is there by now fails
TagCreate(r) ==
  /\ req[r].pc = "tagCreate"
  /\ \/ /\ req[r].tagList[req[r].i] \notin tags
        /\ tags' = tags \cup { req[r].tagList[req[r].i] }
        /\ req' = [req EXCEPT ![r].pc = "link"]
     \/ /\ req[r].tagList[req[r].i] \in tags
        /\ req' = [req EXCEPT ![r] = Finish(req[r], 500, "conflict")]
        /\ UNCHANGED tags
     \/ /\ req' = [req EXCEPT ![r] = Finish(req[r], 500, "attach")]
        /\ UNCHANGED tags
  /\ UNCHANGED << links, linkToTag, nextId, clock, probes >>

\* TagLink that goes back to the upsert of the same tag when the statement
\* fails, instead of throwing
TagLink_Retries(r) ==
  /\ req[r].pc = "link"
  /\ \/ /\ req[r].id \in DOMAIN links
        /\ linkToTag' = linkToTag \cup { << req[r].id, req[r].tagList[req[r].i] >> }
        /\ req' = [req EXCEPT ![r].i = @ + 1,
                              ![r].pc = IF req[r].i < Len(req[r].tagList)
                                        THEN "upsert" ELSE "respond"]
     \/ /\ req' = [req EXCEPT ![r].pc = "upsert"]
        /\ UNCHANGED linkToTag
  /\ UNCHANGED << links, tags, nextId, clock, probes >>

\* link.controller.ts:46-50; link_id REFERENCES public.links (supabase-setup.sql:38)
TagLink(r) ==
  /\ req[r].pc = "link"
  /\ \/ /\ req[r].id \in DOMAIN links
        /\ linkToTag' = linkToTag \cup { << req[r].id, req[r].tagList[req[r].i] >> }
        /\ req' = [req EXCEPT ![r].i = @ + 1,
                              ![r].pc = IF req[r].i < Len(req[r].tagList)
                                        THEN "upsert" ELSE "respond"]
     \/ /\ req[r].id \notin DOMAIN links
        /\ req' = [req EXCEPT ![r] = Finish(req[r], 500, "race")]
        /\ UNCHANGED linkToTag
     \/ /\ req' = [req EXCEPT ![r] = Finish(req[r], 500, "attach")]
        /\ UNCHANGED linkToTag
  /\ UNCHANGED << links, tags, nextId, clock, probes >>

\* link.controller.ts:205-224 (createLink), :396-415 (updateLink): the reads
\* whose results go into the response body only
Respond(r) ==
  /\ req[r].pc = "respond"
  /\ req' = [req EXCEPT ![r] =
               Finish(req[r], IF req[r].kind = "create" THEN 201 ELSE 200, "none")]
  /\ UNCHANGED << store, probes >>

(***************************************************************************)
(* updateLink (link.controller.ts:343-420)                                 *)
(***************************************************************************)
\* a field the body does not carry (undefined)
Absent == "<undefined>"

Body(title, summary, setTags, tagList) ==
  [valid |-> TRUE, title |-> title, summary |-> summary,
   setTags |-> setTags, tagList |-> tagList]
\* a body updateLinkSchema rejects, such as {"tags": "News"}
BadBody == [Body(Absent, Absent, FALSE, << >>) EXCEPT !.valid = FALSE]
UpdateBodies ==
  { BadBody,
    Body("New title", Absent, FALSE, << >>),
    Body(Absent, "New summary", TRUE, << "news", "Podcast" >>),
    Body(Absent, Absent, TRUE, << >>) }

\* the ids a client may name: those handed out so far and one that is not
KnownIds == 1..nextId

\* link.controller.ts:345-363: the body is validated before the first await
StartUpdate(r) ==
  /\ CanStart(r)
  /\ \E user \in StartUsers(r), id \in KnownIds, body \in UpdateBodies :
       LET new == [IdleReq EXCEPT !.kind = "update", !.user = user, !.id = id,
                                  !.title = body.title, !.summary = body.summary,
                                  !.setTags = body.setTags,
                                  !.tagList = body.tagList]
       IN  req' = [req EXCEPT ![r] =
                     IF body.valid THEN [new EXCEPT !.pc = "uFind"]
                     ELSE [IdleReq EXCEPT !.kind = "update", !.user = user,
                                          !.id = id, !.pc = "done",
                                          !.status = 400]]
  /\ UNCHANGED << store, probes >>

\* FindUnique by id alone, without the userId of the where clause
FindUnique_AnyOwner(id, user) == id \in DOMAIN links

\* prisma.link.findUnique({where: {id, userId}})
FindUnique(id, user) == id \in DOMAIN links /\ links[id].user = user

\* link.controller.ts:366-375
UpdateFind(r) ==
  /\ req[r].kind = "update" /\ req[r].pc = "uFind"
  /\ \/ /\ FindUnique(req[r].id, req[r].user)
        /\ req' = [req EXCEPT ![r].pc = "uUpdate"]
     \/ /\ ~FindUnique(req[r].id, req[r].user)
        /\ req' = [req EXCEPT ![r] = Finish(req[r], 404, "none")]
     \/ req' = [req EXCEPT ![r] = Finish(req[r], 500, "find")]
  /\ UNCHANGED << store, probes >>

\* UpdatedRow with the embedding computed anew from an edited summary
UpdatedRow_Reembeds(row, title, summary) ==
  [row EXCEPT !.title = IF title # Absent THEN title ELSE @,
              !.summary = IF summary # Absent THEN summary ELSE @,
              !.embedding = IF summary # Absent
                            THEN [@ EXCEPT !.src = << summary >>] ELSE @]

\* the row prisma.link.update({where: {id}, data: updateData}) leaves
\* (link.controller.ts:378-385)
UpdatedRow(row, title, summary) ==
  [row EXCEPT !.title = IF title # Absent THEN title ELSE @,
              !.summary = IF summary # Absent THEN summary ELSE @]

\* link.controller.ts:382-388; update throws when the row is gone
UpdateApply(r) ==
  /\ req[r].kind = "update" /\ req[r].pc = "uUpdate"
  /\ \/ /\ req[r].id \in DOMAIN links
        /\ links' = [links EXCEPT ![req[r].id] =
                       UpdatedRow(@, req[r].title, req[r].summary)]
        /\ req' = [req EXCEPT ![r].pc = IF req[r].setTags THEN "uDelTags"
                                        ELSE "respond"]
     \/ /\ req[r].id \notin DOMAIN links
        /\ req' = [req EXCEPT ![r] = Finish(req[r], 500, "race")]
        /\ UNCHANGED links
     \/ /\ req' = [req EXCEPT ![r] = Finish(req[r], 500, "update")]
        /\ UNCHANGED links
  /\ UNCHANGED << tags, linkToTag, nextId, clock, probes >>

\* deleteTagsForLink (link.controller.ts:83-93), called at :390; then the
\* loop of createTagsForLink starts, which an empty list ends at once
UpdateDelTags(r) ==
  /\ req[r].kind = "update" /\ req[r].pc = "uDelTags"
  /\ \/ /\ linkToTag' = { p \in linkToTag : p[1] # req[r].id }
        /\ req' = [req EXCEPT ![r].i = 1, ![r].calls = @ + 1,
                              ![r].pc = IF req[r].tagList = << >>
                                        THEN "respond" ELSE "upsert"]
     \/ /\ req' = [req EXCEPT ![r] = Finish(req[r], 500, "detach")]
        /\ UNCHANGED linkToTag
  /\ UNCHANGED << links, tags, nextId, clock, probes >>

(***************************************************************************)
(* deleteLink (link.controller.ts:426-458)                                 *)
(***************************************************************************)
\* link.controller.ts:428-435
StartDelete(r) ==
  /\ CanStart(r)
  /\ \E user \in StartUsers(r), id \in KnownIds :
       req' = [req EXCEPT ![r] =
                 [IdleReq EXCEPT !.kind = "delete", !.user = user, !.id = id,
                                 !.pc = "dFind"]]
  /\ UNCHANGED << store, probes >>

\* link.controller.ts:435-444
DeleteFind(r) ==
  /\ req[r].kind = "delete" /\ req[r].pc = "dFind"
  /\ \/ /\ FindUnique(req[r].id, req[r].user)
        /\ req' = [req EXCEPT ![r].pc = "dDelete"]
     \/ /\ ~FindUnique(req[r].id, req[r].user)
        /\ req' = [req EXCEPT ![r] = Finish(req[r], 404, "none")]
     \/ req' = [req EXCEPT ![r] = Finish(req[r], 500, "find")]
  /\ UNCHANGED << store, probes >>

\* DeleteApply without the ON DELETE CASCADE of link_to_tag
DeleteApply_NoCascade(r) ==
  /\ req[r].kind = "delete" /\ req[r].pc = "dDelete"
  /\ \/ /\ req[r].id \in DOMAIN links
        /\ links' = [id \in DOMAIN links \ { req[r].id } |-> links[id]]
        /\ req' = [req EXCEPT ![r] = Finish(req[r], 200, "none")]
     \/ /\ req[r].id \notin DOMAIN links
        /\ req' = [req EXCEPT ![r] = Finish(req[r], 500, "race")]
        /\ UNCHANGED links
     \/ /\ req' = [req EXCEPT ![r] = Finish(req[r], 500, "delete")]
        /\ UNCHANGED links
  /\ UNCHANGED << tags, linkToTag, nextId, clock, probes >>

\* link.controller.ts:447-453; link_to_tag rows go with the link: ON DELETE
\* CASCADE (supabase-setup.sql:38)
DeleteApply(r) ==
  /\ req[r].kind = "delete" /\ req[r].pc = "dDelete"
  /\ \/ /\ req[r].id \in DOMAIN links
        /\ links' = [id \in DOMAIN links \ { req[r].id } |-> links[id]]
        /\ linkToTag' = { p \in linkToTag : p[1] # req[r].id }
        /\ req' = [req EXCEPT ![r] = Finish(req[r], 200, "none")]
     \/ /\ req[r].id \notin DOMAIN links
        /\ req' = [req EXCEPT ![r] = Finish(req[r], 500, "race")]
        /\ UNCHANGED << links, linkToTag >>
     \/ /\ req' = [req EXCEPT ![r] = Finish(req[r], 500, "delete")]
        /\ UNCHANGED << links, linkToTag >>
  /\ UNCHANGED << tags, nextId, clock, probes >>

Next ==
  \E r \in Reqs :
    \/ StartCreate(r)
    \/ CreateMeta(r)
    \/ CreateContent(r)
    \/ CreateSummary(r)
    \/ CreateTags(r)
    \/ CreateEmbed(r)
    \/ CreateInsert(r)
    \/ CreateFind(r)
    \/ TagUpsert(r)
    \/ TagCreate(r)
    \/ TagLink(r)
    \/ Respond(r)
    \/ StartUpdate(r)
    \/ UpdateFind(r)
    \/ UpdateApply(r)
    \/ UpdateDelTags(r)
    \/ StartDelete(r)
    \/ DeleteFind(r)
    \/ DeleteApply(r)

Spec == Init /\ [][Next]_vars

(***************************************************************************)
(* generateTags on every answer of the generation service, up to           *)
(* MaxTagItems names long                                                  *)
(***************************************************************************)
\* names the service answers with: a vocabulary entry in another casing, one
\* in its own casing, one outside the vocabulary
TagStrings == { "NEWS", "Blog", "Podcast" }
TagElems == TagStrings \cup { NotAString }

SeqsUpTo(S, n) == UNION { [1..k -> S] : k \in 0..n }

TagAnswerSpace ==
  { TagResp("error", << >>, "none", << >>),
    TagResp("empty", << >>, "none", << >>),
    TagResp("nonarray", << >>, "none", << >>) }
  \cup { TagResp("array", items, "none", << >>) :
           items \in SeqsUpTo(TagElems, MaxTagItems) }
  \cup { TagResp("nonarray", items, "items", << >>) :
           items \in SeqsUpTo(TagElems, MaxTagItems) }
  \cup { TagResp("nonarray", << >>, "bad", split) :
           split \in SeqsUpTo(TagStrings, MaxTagItems) }
  \cup { TagResp("invalid", << >>, "none", split) :
           split \in SeqsUpTo(TagStrings, MaxTagItems) }

InitTags ==
  /\ InitStore
  /\ req = [r \in Reqs |-> IdleReq]
  /\ env = CalmEnv
  /\ tagResp \in TagAnswerSpace
  /\ tagOut = NoTagOut
  /\ mq = NoQuery
  /\ mResult = NoResult

ClassifyTags ==
  /\ ~tagOut.done
  /\ tagOut' = [done |-> TRUE, tags |-> GenerateTags(tagResp)]
  /\ UNCHANGED << store, req, env, tagResp, mq, mResult >>

NextTags == ClassifyTags

SpecTags == InitTags /\ [][NextTags]_vars

(***************************************************************************)
(* match_links (supabase-setup.sql:109-143)                                *)
(***************************************************************************)
\* cosine of the angle between two directions, in hundredths
Cosine(a, b) ==
  LET d == IF a < b THEN b - a ELSE a - b
  IN  CASE d = 0 -> 100
        [] d = 1 -> 87
        [] d = 2 -> 50
        [] d = 3 -> 0
        [] d = 4 -> -50
        [] d = 5 -> -87
        [] OTHER -> -100

\* Similarity without the "1 -": the distance itself
Similarity_Distance(row, q) == 100 - Cosine(row.embedding.dir, q.dir)

\* supabase-setup.sql:135: 1 - (links.embedding <=> query_embedding), where
\* <=> is the cosine distance, 1 - cosine
Similarity(row, q) == 100 - (100 - Cosine(row.embedding.dir, q.dir))

\* Qualifies without the similarity condition of line 139
Qualifies_AnySimilarity(row, q) ==
  /\ row.user = q.user
  /\ row.embedding.present

\* Qualifies without the user_id condition of line 137
Qualifies_AnyOwner(row, q) ==
  /\ row.embedding.present
  /\ Similarity(row, q) > q.threshold

\* supabase-setup.sql:137-139
Qualifies(row, q) ==
  /\ row.user = q.user
  /\ row.embedding.present
  /\ Similarity(row, q) > q.threshold

\* supabase-setup.sql:140: ORDER BY similarity DESC, rows of equal similarity
\* in any order
SortedDesc(ids, rows, q) ==
  \A k \in 1..(Len(ids) - 1) :
    Similarity(rows[ids[k]], q) >= Similarity(rows[ids[k + 1]], q)

\* supabase-setup.sql:127-141: every list the query may return: the
\* qualifying rows in descending order of similarity, cut to match_count
MatchLinks(rows, q) ==
  LET Q == { id \in DOMAIN rows : Qualifies(rows[id], q) }
      n == IF Cardinality(Q) < q.count THEN Cardinality(Q) ELSE q.count
      orders == { ids \in [1..Cardinality(Q) -> Q] :
                    /\ \A a, b \in 1..Cardinality(Q) : a # b => ids[a] # ids[b]
                    /\ SortedDesc(ids, rows, q) }
  IN  { [k \in 1..n |->
           [id |-> ids[k], url |-> rows[ids[k]].url,
            title |-> rows[ids[k]].title, summary |-> rows[ids[k]].summary,
            similarity |-> Similarity(rows[ids[k]], q)]] : ids \in orders }

\* stores of up to MaxStore rows as createLink leaves them, of either user
\* and any direction, and the calls of match_links on them
StoredRow(user, dir, t) ==
  [url |-> "https://www.a.example/post", title |-> "Page title",
   image |-> "https://www.a.example/og.png", domain |-> "a.example",
   summary |-> "A short summary.", user |-> user,
   embedding |-> [present |-> TRUE, dim |-> EMBEDDING_DIMENSIONS,
                  finite |-> TRUE, dir |-> dir,
                  src |-> << "Body text" >>],
   createdAt |-> t]

StoreSpace ==
  UNION { { [id \in 1..n |-> StoredRow(owner[id], dir[id], id)] :
              owner \in [1..n -> Users], dir \in [1..n -> Dirs] } :
          n \in 0..MaxStore }

Thresholds == { -50, 0, 50 }
Counts == { 1, 2, ChatCount }
QuerySpace ==
  { [dir |-> d, threshold |-> th, count |-> c, user |-> "alice"] :
      d \in Dirs, th \in Thresholds, c \in Counts }

InitMatch ==
  /\ links \in StoreSpace
  /\ tags = SeedTags
  /\ linkToTag = {}
  /\ nextId = Len(links) + 1
  /\ clock = Len(links) + 1
  /\ req = [r \in Reqs |-> IdleReq]
  /\ env = CalmEnv
  /\ tagResp = NoTagResp
  /\ tagOut = NoTagOut
  /\ mq \in QuerySpace
  /\ mResult = NoResult

RunMatch ==
  /\ ~mResult.done
  /\ \E rows \in MatchLinks(links, mq) : mResult' = [done |-> TRUE, rows |-> rows]
  /\ UNCHANGED << store, req, env, tagResp, tagOut, mq >>

NextMatch == RunMatch

SpecMatch == InitMatch /\ [][NextMatch]_vars

(***************************************************************************)
(* Two callers of createTagsForLink at once: two POST /links that have     *)
(* each inserted and read back their row (link.controller.ts:202)          *)
(***************************************************************************)
\* tag lists generateTags returns
UpsertLists ==
  { << "Tutorial" >>, << "News", "Tutorial" >>, << "Article", "Blog" >> }

\* the locals of a createLink that has just called createTagsForLink for the
\* row id it inserted
AtCreateTags(user, id, tagList) ==
  [IdleReq EXCEPT !.kind = "create", !.pc = "upsert", !.user = user,
                  !.url = "https://www.a.example/post", !.id = id,
                  !.tagList = tagList, !.i = 1, !.inserted = id, !.calls = 1,
                  !.called = { "meta", "content", "summary", "tags", "embed" }]

\* the clients keep two requests in flight
PairEnv == [CalmEnv EXCEPT !.cap = 2]

InitUpsert ==
  /\ \E u \in Users :
       links = [id \in 1..2 |-> StoredRow(IF id = 1 THEN "alice" ELSE u, 0, id)]
  /\ tags = SeedTags
  /\ linkToTag = {}
  /\ nextId = 3
  /\ clock = 3
  /\ \E l1, l2 \in UpsertLists :
       req = [r \in Reqs |->
                IF r \in 1..2
                THEN AtCreateTags(links[r].user, r, IF r = 1 THEN l1 ELSE l2)
                ELSE IdleReq]
  /\ env = PairEnv
  /\ InitProbes

NextUpsert ==
  \E r \in 1..2 :
    \/ TagUpsert(r)
    \/ TagCreate(r)
    \/ TagLink(r)
    \/ Respond(r)

SpecUpsert == InitUpsert /\ [][NextUpsert]_vars

(***************************************************************************)
(* The handlers that read: getLinks, getLinkById (link.controller.ts),     *)
(* getLinksByTag (tag controller), chatWithLinks (chat.controller.ts) and  *)
(* previewLink (link.controller.ts)                                        *)
(***************************************************************************)
\* res.status(status).json(body): the locals are the body
Reply(rec, status) == [rec EXCEPT !.pc = "done", !.status = status]

\* ORDER BY created_at DESC: the orders of a set of rows, newest first
NewestFirst(ids) ==
  { o \in [1..Cardinality(ids) -> ids] :
      /\ \A a, b \in 1..Cardinality(ids) : a # b => o[a] # o[b]
      /\ \A k \in 1..(Cardinality(ids) - 1) :
           links[o[k]].createdAt >= links[o[k + 1]].createdAt }

\* the rows as a handler lists them
Listed(o) == [k \in 1..Len(o) |-> [id |-> o[k], user |-> links[o[k]].user]]

\* link.controller.ts:242-246
StartGetLinks(r) ==
  /\ CanStart(r)
  /\ \E user \in StartUsers(r) :
       req' = [req EXCEPT ![r] =
                 [IdleReq EXCEPT !.kind = "getLinks", !.user = user, !.pc = "gFind"]]
  /\ UNCHANGED << store, probes >>

\* link.controller.ts:249-256: findMany({where: {userId}, orderBy: {createdAt: 'desc'}})
GetLinksFind(r) ==
  /\ req[r].kind = "getLinks" /\ req[r].pc = "gFind"
  /\ \/ \E o \in NewestFirst({ id \in DOMAIN links : links[id].user = req[r].user }) :
          req' = [req EXCEPT ![r].out = Listed(o), ![r].pc = "rRespond"]
     \/ req' = [req EXCEPT ![r] = Finish(req[r], 500, "find")]
  /\ UNCHANGED << store, probes >>

\* link.controller.ts:295-301
StartGetLink(r) ==
  /\ CanStart(r)
  /\ \E user \in StartUsers(r), id \in KnownIds :
       req' = [req EXCEPT ![r] =
                 [IdleReq EXCEPT !.kind = "getLink", !.user = user, !.id = id,
                                 !.pc = "lFind"]]
  /\ UNCHANGED << store, probes >>

\* link.controller.ts:303-312
GetLinkFind(r) ==
  /\ req[r].kind = "getLink" /\ req[r].pc = "lFind"
  /\ \/ /\ FindUnique(req[r].id, req[r].user)
        /\ req' = [req EXCEPT ![r].out = Listed(<< req[r].id >>),
                              ![r].pc = "rRespond"]
     \/ /\ ~FindUnique(req[r].id, req[r].user)
        /\ req' = [req EXCEPT ![r] = Finish(req[r], 404, "none")]
     \/ req' = [req EXCEPT ![r] = Finish(req[r], 500, "find")]
  /\ UNCHANGED << store, probes >>

\* tag names a client may ask for
TagNames == { "News", "Tutorial", "Podcast" }

\* part_001:54-60
StartByTag(r) ==
  /\ CanStart(r)
  /\ \E user \in StartUsers(r), name \in TagNames :
       req' = [req EXCEPT ![r] =
                 [IdleReq EXCEPT !.kind = "byTag", !.user = user, !.param = name,
                                 !.pc = "tFindTag"]]
  /\ UNCHANGED << store, probes >>

\* part_001:63-71
ByTagFindTag(r) ==
  /\ req[r].kind = "byTag" /\ req[r].pc = "tFindTag"
  /\ \/ /\ req[r].param \in tags
        /\ req' = [req EXCEPT ![r].pc = "tFindLinks"]
     \/ /\ req[r].param \notin tags
        /\ req' = [req EXCEPT ![r] = Finish(req[r], 404, "none")]
     \/ req' = [req EXCEPT ![r] = Finish(req[r], 500, "find")]
  /\ UNCHANGED << store, probes >>

\* part_001:74-81
ByTagFindLinks(r) ==
  /\ req[r].kind = "byTag" /\ req[r].pc = "tFindLinks"
  /\ \/ \E o \in NewestFirst({ id \in DOMAIN links :
                                /\ << id, req[r].param >> \in linkToTag
                                /\ links[id].user = req[r].user }) :
          req' = [req EXCEPT ![r].out = Listed(o), ![r].pc = "rRespond"]
     \/ req' = [req EXCEPT ![r] = Finish(req[r], 500, "find")]
  /\ UNCHANGED << store, probes >>

\* link.controller.ts:259-284, :315-332 (the embedding read reports its error
\* in the result, getTagsForLink catches its own) and part_001:84-110 (the
\* tag query of a listed link may throw)
ReadRespond(r) ==
  /\ req[r].pc = "rRespond"
  /\ \/ req' = [req EXCEPT ![r] = Reply(req[r], 200)]
     \/ /\ req[r].kind = "byTag"
        /\ req' = [req EXCEPT ![r] = Finish(req[r], 500, "find")]
  /\ UNCHANGED << store, probes >>

(***************************************************************************)
(* generateChatResponse (openai.utils.ts:188-236) and chatWithLinks        *)
(***************************************************************************)
\* openai.utils.ts:231 and :234
ChatEmptyAnswer == "I could not generate a response."
ChatErrorAnswer ==
  "Sorry, I encountered an error while generating a response. Please try again later."

\* the call throws, or answers with no content, with blanks, with a text
ChatResponses == { ApiError, Null, "", "   ", "Your links say so." }

\* GenerateChatResponse with the error of the call thrown on
GenerateChatResponse_Rethrows(resp) ==
  IF resp = ApiError THEN ApiError
  ELSE IF resp \in { Null, "" } THEN ChatEmptyAnswer
  ELSE resp

\* GenerateChatResponse without the fallback for an empty content
GenerateChatResponse_AsAnswered(resp) ==
  IF resp = ApiError THEN ChatErrorAnswer
  ELSE IF resp = Null THEN ""
  ELSE resp

\* openai.utils.ts:196-235; the result ApiError stands for a throw
GenerateChatResponse(resp) ==
  IF resp = ApiError THEN ChatErrorAnswer
  ELSE IF resp \in { Null, "" } THEN ChatEmptyAnswer
  ELSE resp

\* chat.controller.ts:21-28; chatQuerySchema (part_005:27-29)
ChatQueries == { "", "What did I save?" }
EnhancedQuery(query) == << "This is about:", query >>

\* answers of the embedding service to the query
QueryEmbeddingResponses ==
  { EmbResp("error", 0, TRUE, 0),
    EmbResp("vector", EMBEDDING_DIMENSIONS, FALSE, 0),
    EmbResp("vector", EMBEDDING_DIMENSIONS, TRUE, 0),
    EmbResp("vector", EMBEDDING_DIMENSIONS, TRUE, 3) }

\* chat.controller.ts:15-29
StartChat(r) ==
  /\ CanStart(r)
  /\ \E user \in StartUsers(r), query \in ChatQueries :
       LET new == [IdleReq EXCEPT !.kind = "chat", !.user = user, !.param = query]
       IN  req' = [req EXCEPT ![r] =
                     IF query # ""
                     THEN [new EXCEPT !.pc = "cEmbed", !.called = { "embed" }]
                     ELSE [new EXCEPT !.pc = "done", !.status = 400]]
  /\ UNCHANGED << store, probes >>

\* chat.controller.ts:29 and, for the throw, :61-64
ChatEmbed(r) ==
  /\ req[r].kind = "chat" /\ req[r].pc = "cEmbed"
  /\ \E resp \in QueryEmbeddingResponses :
       LET g == GenerateEmbedding(EnhancedQuery(req[r].param), resp)
           seen == [req[r] EXCEPT !.embFailed = AnswerFails(resp)]
       IN  req' = [req EXCEPT ![r] =
                     IF g.ok
                     THEN [seen EXCEPT !.embedding = g.vec, !.pc = "cMatch"]
                     ELSE Finish(seen, 500, "embed")]
  /\ UNCHANGED << store, probes >>

\* chat.controller.ts:31-41
ChatMatch(r) ==
  /\ req[r].kind = "chat" /\ req[r].pc = "cMatch"
  /\ \/ \E rows \in MatchLinks(links, [dir |-> req[r].embedding.dir,
                                      threshold |-> ChatThreshold,
                                      count |-> ChatCount,
                                      user |-> req[r].user]) :
          req' = [req EXCEPT ![r].out = rows, ![r].pc = "cAnswer",
                             ![r].called = @ \cup { "answer" }]
     \/ req' = [req EXCEPT ![r] = Finish(req[r], 500, "match")]
  /\ UNCHANGED << store, probes >>

\* chat.controller.ts:43-60 and, for a throw, :61-64
ChatAnswer(r) ==
  /\ req[r].kind = "chat" /\ req[r].pc = "cAnswer"
  /\ \E resp \in ChatResponses :
       LET text == GenerateChatResponse(resp)
           seen == [req[r] EXCEPT !.degraded =
                      IF resp \in { ApiError, Null, "" } THEN @ \cup { "answer" } ELSE @]
       IN  req' = [req EXCEPT ![r] =
                     IF text = ApiError THEN Finish(seen, 500, "answer")
                     ELSE Reply([seen EXCEPT !.answer = text], 200)]
  /\ UNCHANGED << store, probes >>

(***************************************************************************)
(* previewLink (link.controller.ts:464-503)                                *)
(***************************************************************************)
\* what fetching a url can give: a string that is no URL cannot be fetched
FetchesOf(url) == IF ValidUrl(url) THEN env.fetches ELSE { FetchError }

\* link.controller.ts:466-470: any string is taken
StartPreview(r) ==
  /\ CanStart(r)
  /\ \E user \in StartUsers(r), url \in Urls \cup { BadUrl, Absent } :
       LET new == [IdleReq EXCEPT !.kind = "preview", !.user = user, !.url = url]
       IN  req' = [req EXCEPT ![r] =
                     IF url # Absent
                     THEN [new EXCEPT !.pc = "pMeta", !.called = { "meta" }]
                     ELSE [new EXCEPT !.pc = "done", !.status = 400]]
  /\ UNCHANGED << store, probes >>

\* link.controller.ts:474
PreviewMeta(r) ==
  /\ req[r].kind = "preview" /\ req[r].pc = "pMeta"
  /\ \E fetch \in FetchesOf(req[r].url) :
       LET m == ExtractUrlMetadata(req[r].url, fetch)
       IN  req' = [req EXCEPT ![r].title = m.title, ![r].image = m.image,
                              ![r].called = @ \cup { "content" },
                              ![r].pc = "pContent"]
  /\ UNCHANGED << store, probes >>

\* link.controller.ts:477 and the two calls Promise.all is given (:480-483)
PreviewContent(r) ==
  /\ req[r].kind = "preview" /\ req[r].pc = "pContent"
  /\ \E fetch \in FetchesOf(req[r].url) :
       req' = [req EXCEPT ![r].content = ExtractUrlContent(req[r].url, fetch),
                          ![r].called = @ \cup { "summary", "tags" },
                          ![r].pending = { "summary", "tags" },
                          ![r].pc = "pGenerate"]
  /\ UNCHANGED << store, probes >>

\* link.controller.ts:481
PreviewSummary(r) ==
  /\ req[r].kind = "preview" /\ req[r].pc = "pGenerate"
  /\ "summary" \in req[r].pending
  /\ \E resp \in env.summaries :
       req' = [req EXCEPT ![r].summary = GenerateSummary(resp),
                          ![r].pending = @ \ { "summary" }]
  /\ UNCHANGED << store, probes >>

\* link.controller.ts:482
PreviewTags(r) ==
  /\ req[r].kind = "preview" /\ req[r].pc = "pGenerate"
  /\ "tags" \in req[r].pending
  /\ \E resp \in env.tagAnswers :
       req' = [req EXCEPT ![r].tagList = GenerateTags(resp),
                          ![r].pending = @ \ { "tags" }]
  /\ UNCHANGED << store, probes >>

\* PreviewRespond that saves the suggested tags
PreviewRespond_SavesTags(r) ==
  /\ req[r].kind = "preview" /\ req[r].pc = "pGenerate"
  /\ req[r].pending = {}
  /\ tags' = tags \cup Range(req[r].tagList)
  /\ req' = [req EXCEPT ![r] = Reply(req[r], 200)]
  /\ UNCHANGED << links, linkToTag, nextId, clock, probes >>

\* link.controller.ts:480-494
PreviewRespond(r) ==
  /\ req[r].kind = "preview" /\ req[r].pc = "pGenerate"
  /\ req[r].pending = {}
  /\ req' = [req EXCEPT ![r] = Reply(req[r], 200)]
  /\ UNCHANGED << store, probes >>

(***************************************************************************)
(* One reading request on every store of up to MaxStore records            *)
(***************************************************************************)
\* what a stored record is like: the direction of its embedding and its tags
RowShapes ==
  { [dir |-> 0, tags |-> { "News", "Tutorial" }],
    [dir |-> 2, tags |-> { "Blog" }],
    [dir |-> 3, tags |-> {} ] }

InitRead ==
  /\ \E n \in 0..MaxStore :
       \E owner \in [1..n -> Users], shape \in [1..n -> RowShapes] :
         /\ links = [id \in 1..n |-> StoredRow(owner[id], shape[id].dir, id)]
         /\ linkToTag = { p \in (1..n) \X Range(AVAILABLE_TAGS) :
                            p[2] \in shape[p[1]].tags }
         /\ tags = SeedTags \cup UNION { shape[id].tags : id \in 1..n }
         /\ nextId = n + 1
         /\ clock = n + 1
  /\ req = [r \in Reqs |-> IdleReq]
  /\ env = RoughEnv
  /\ InitProbes

NextRead ==
  \/ StartGetLinks(1)
  \/ GetLinksFind(1)
  \/ StartGetLink(1)
  \/ GetLinkFind(1)
  \/ StartByTag(1)
  \/ ByTagFindTag(1)
  \/ ByTagFindLinks(1)
  \/ ReadRespond(1)
  \/ StartChat(1)
  \/ ChatEmbed(1)
  \/ ChatMatch(1)
  \/ ChatAnswer(1)
  \/ StartPreview(1)
  \/ PreviewMeta(1)
  \/ PreviewContent(1)
  \/ PreviewSummary(1)
  \/ PreviewTags(1)
  \/ PreviewRespond(1)

SpecRead == InitRead /\ [][NextRead]_vars

NextIngest ==
  \/ StartCreate(1)
  \/ CreateMeta(1)
  \/ CreateContent(1)
  \/ CreateSummary(1)
  \/ CreateTags(1)
  \/ CreateEmbed(1)
  \/ CreateInsert(1)
  \/ CreateFind(1)
  \/ TagUpsert(1)
  \/ TagCreate(1)
  \/ TagLink(1)
  \/ Respond(1)

SpecIngest == InitIngest /\ [][NextIngest]_vars

(***************************************************************************)
(* Routing (index.ts:28-31 and the routers) and the authenticate           *)
(* middleware (middleware/auth.middleware)                                 *)
(***************************************************************************)
\* a route: the handler express dispatches to, and whether authenticate is
\* mounted in front of it
Route(handler, guarded) == [handler |-> handler, guarded |-> guarded]

\* routes/auth.routes (part_002:7-14)
AuthRoutes ==
  { Route("register", FALSE), Route("login", FALSE), Route("getProfile", TRUE) }
\* link.routes.ts:8-26: router.use(authenticate) in front of every route
LinkRoutes ==
  { Route(h, TRUE) : h \in { "previewLink", "createLink", "getLinks",
                             "getLinkById", "updateLink", "deleteLink" } }
\* routes/chat.routes (link.routes.ts:36-39)
ChatRoutes == { Route("chatWithLinks", TRUE) }
\* tag.routes.ts:8 and :11
TagRoutes == { Route("getAllTags", FALSE), Route("getLinksByTag", TRUE) }
\* index.ts:28-31
Routes == AuthRoutes \cup LinkRoutes \cup ChatRoutes \cup TagRoutes

\* Authorization headers a client may send: none, the scheme without a
\* token, a JWT this server signed for alice, a Supabase session token of
\* bob, a token nobody issued
AuthHeaders ==
  { Absent, "Bearer", "Bearer jwt-alice", "Bearer supabase-bob", "Bearer forged" }

\* part_000:42  authHeader.split(' ')[1]
TokenOf(header) ==
  CASE header = "Bearer jwt-alice" -> "jwt-alice"
    [] header = "Bearer supabase-bob" -> "supabase-bob"
    [] header = "Bearer forged" -> "forged"
    [] OTHER -> Absent

\* part_000:57  jwt.verify: the user the token was signed for; Null for a throw
JwtVerify(token) == IF token = "jwt-alice" THEN "alice" ELSE Null

\* part_000:69  supabase.auth.getUser(token): the user of the session; Null
\* for an error, no user or a throw
SupabaseGetUser(token) == IF token = "supabase-bob" THEN "bob" ELSE Null

\* the server's configuration: whether JWT_SECRET is set (part_000:49) and
\* whether the Supabase client was created (part_000:13-20)
AuthEnvs ==
  { [cap |-> 1, fetches |-> { FullPage }, summaries |-> { GoodSummary },
     tagAnswers |-> { GoodTagResp }, jwtSecret |-> secret, supabase |-> client] :
      secret \in BOOLEAN, client \in BOOLEAN }

InitAuth ==
  /\ InitStore
  /\ req = [r \in Reqs |-> IdleReq]
  /\ env \in AuthEnvs
  /\ InitProbes

\* express matches the request to its route; a route without the middleware
\* goes to its handler at once
StartRoute(r) ==
  /\ CanStart(r)
  /\ \E route \in Routes, header \in AuthHeaders :
       req' = [req EXCEPT ![r] =
                 [IdleReq EXCEPT !.kind = route.handler, !.param = header,
                                 !.pc = IF route.guarded THEN "auth"
                                        ELSE "handler"]]
  /\ UNCHANGED << store, probes >>

\* part_000:34-96
Authenticate(r) ==
  /\ req[r].pc = "auth"
  /\ LET header == req[r].param
         token == TokenOf(header)
     IN  req' = [req EXCEPT ![r] =
                   IF header = Absent THEN Reply(req[r], 401)
                   ELSE IF token = Absent THEN Reply(req[r], 401)
                   ELSE IF ~env.jwtSecret THEN Reply(req[r], 500)
                   ELSE IF JwtVerify(token) # Null
                        THEN [req[r] EXCEPT !.user = JwtVerify(token),
                                            !.pc = "handler"]
                   ELSE IF env.supabase /\ SupabaseGetUser(token) # Null
                        THEN [req[r] EXCEPT !.user = SupabaseGetUser(token),
                                            !.pc = "handler"]
                   ELSE Reply(req[r], 401)]
  /\ UNCHANGED << store, probes >>

\* getAllTags (part_001:29-48): the names of every row of public.tags (their
\* order by name is left out)
GetAllTags(r) ==
  /\ req[r].kind = "getAllTags" /\ req[r].pc = "handler"
  /\ \/ req' = [req EXCEPT ![r] =
                  Reply([req[r] EXCEPT !.called = { "handler" },
                                       !.answer = tags], 200)]
     \/ req' = [req EXCEPT ![r] =
                  Reply([req[r] EXCEPT !.called = { "handler" }], 500)]
  /\ UNCHANGED << store, probes >>

\* express calls the handler of any other route; what the handler does from
\* there is in the sections of the handlers
EnterHandler(r) ==
  /\ req[r].kind # "getAllTags" /\ req[r].pc = "handler"
  /\ req' = [req EXCEPT ![r].called = { "handler" }, ![r].pc = "entered"]
  /\ UNCHANGED << store, probes >>

NextAuth ==
  \/ StartRoute(1)
  \/ Authenticate(1)
  \/ GetAllTags(1)
  \/ EnterHandler(1)

SpecAuth == InitAuth /\ [][NextAuth]_vars

(***************************************************************************)
(* Two POST /links in flight at once (createLink, link.controller.ts)      *)
(***************************************************************************)
InitPair ==
  /\ InitStore
  /\ req = [r \in Reqs |-> IdleReq]
  /\ env = PairEnv
  /\ InitProbes

\* the steps of a createLink after its first await
CreateStep(r) ==
  \/ CreateMeta(r)
  \/ CreateContent(r)
  \/ CreateSummary(r)
  \/ CreateTags(r)
  \/ CreateEmbed(r)
  \/ CreateInsert(r)
  \/ CreateFind(r)
  \/ TagUpsert(r)
  \/ TagCreate(r)
  \/ TagLink(r)
  \/ Respond(r)

NextPair == \E r \in 1..2 : StartCreate(r) \/ CreateStep(r)

SpecPair == InitPair /\ [][NextPair]_vars

\* every page fetch, generation call and store call returns or fails: a
\* handler waiting on one takes its next step
SpecPairFair == SpecPair /\ \A r \in 1..2 : WF_vars(CreateStep(r))

(***************************************************************************)
(* Two PUT /links/:id for the same link in flight at once (updateLink,     *)
(* link.controller.ts:343-420)                                             *)
(***************************************************************************)
\* the tag lists of the two bodies
PutLists == { << "News", "Tutorial" >>, << "Blog" >>, << >> }

\* the locals of an updateLink whose body {tags: tagList} has passed the
\* validation (link.controller.ts:351-363)
AtUpdate(user, id, tagList) ==
  [IdleReq EXCEPT !.kind = "update", !.pc = "uFind", !.user = user, !.id = id,
                  !.title = Absent, !.summary = Absent, !.setTags = TRUE,
                  !.tagList = tagList]

\* alice's record 1 carries the tag Image; env.bodies keeps the tag lists the
\* two clients sent
InitPut ==
  /\ links = [id \in 1..1 |-> StoredRow("alice", 0, id)]
  /\ tags = SeedTags
  /\ linkToTag = { << 1, "Image" >> }
  /\ nextId = 2
  /\ clock = 2
  /\ \E l1, l2 \in PutLists :
       /\ req = [r \in Reqs |->
                   IF r \in 1..2
                   THEN AtUpdate("alice", 1, IF r = 1 THEN l1 ELSE l2)
                   ELSE IdleReq]
       /\ env = [cap |-> 2, fetches |-> { FullPage }, summaries |-> { GoodSummary },
                 tagAnswers |-> { GoodTagResp }, bodies |-> << l1, l2 >>]
  /\ InitProbes

NextPut ==
  \E r \in 1..2 :
    \/ UpdateFind(r)
    \/ UpdateApply(r)
    \/ UpdateDelTags(r)
    \/ TagUpsert(r)
    \/ TagCreate(r)
    \/ TagLink(r)
    \/ Respond(r)

SpecPut == InitPut /\ [][NextPut]_vars

(***************************************************************************)
(* A DELETE /links/:id and, after it, a reading request, on every store of *)
(* up to MaxStore records                                                  *)
(***************************************************************************)
NextDelete ==
  \/ StartDelete(1)
  \/ DeleteFind(1)
  \/ DeleteApply(1)
  \/ StartGetLinks(2)
  \/ GetLinksFind(2)
  \/ StartGetLink(2)
  \/ GetLinkFind(2)
  \/ StartByTag(2)
  \/ ByTagFindTag(2)
  \/ ByTagFindLinks(2)
  \/ ReadRespond(2)
  \/ StartChat(2)
  \/ ChatEmbed(2)
  \/ ChatMatch(2)
  \/ ChatAnswer(2)

SpecDelete == InitRead /\ [][NextDelete]_vars

(***************************************************************************)
(* Properties                                                              *)
(***************************************************************************)
\* the tags attached to a link
TagsOf(id) == { p[2] : p \in { q \in linkToTag : q[1] = id } }

\* the rows of a user for a url
RowsOf(user, url) ==
  { id \in DOMAIN links : links[id].user = user /\ links[id].url = url }

\* ---- C1 ----------------------------------------------------------------
\* C1: when the embedding step of createLink fails (the provider errors, the
\* vector has not 1536 components, or a component is NaN or not finite) the
\* request ends with a 5xx status without having inserted a row, and no step
\* of a createLink that has inserted nothing changes links, tags or
\* link_to_tag.
C1_EmbeddingFailureWritesNothing ==
  [][\A r \in Reqs :
       /\ req'[r].embFailed =>
            /\ req'[r].pc = "done"
            /\ req'[r].status \in 500..599
            /\ req'[r].inserted = 0
       /\ (req'[r].kind = "create" /\ req'[r] # req[r] /\ req'[r].inserted = 0)
            => UNCHANGED << links, tags, linkToTag >>]_vars

\* a request has failed on its embedding while the store holds an earlier
\* record and its tags
C1_Witness ==
  \E r \in Reqs :
    /\ req[r].kind = "create" /\ req[r].pc = "done" /\ req[r].embFailed
    /\ req[r].status = 500
    /\ DOMAIN links # {}
    /\ linkToTag # {}

\* ---- C2 ----------------------------------------------------------------
\* C2: every POST /links ends either with 201 and its record in the store, or
\* with an error and no record of it in the store.
C2_AllOrNothing ==
  \A r \in Reqs :
    (req[r].kind = "create" /\ req[r].pc = "done") =>
      \/ req[r].status = 201 /\ req[r].inserted # 0
      \/ req[r].status # 201 /\ req[r].inserted \notin DOMAIN links

\* ---- C3 ----------------------------------------------------------------
\* C3: every row of links has an embedding, of exactly 1536 components, all
\* finite, whatever sequence of POST, PUT and DELETE requests has run.
C3_EveryRowHasValidEmbedding ==
  \A id \in DOMAIN links :
    /\ links[id].embedding.present
    /\ links[id].embedding.dim = 1536
    /\ links[id].embedding.finite

\* a record has been created and then updated, and another POST has failed
C3_Witness ==
  /\ DOMAIN links # {}
  /\ \E r \in Reqs :
       req[r].kind = "update" /\ req[r].pc = "done" /\ req[r].status = 200
  /\ \E r \in Reqs :
       req[r].kind = "create" /\ req[r].pc = "done" /\ req[r].status = 500

\* ---- C4 ----------------------------------------------------------------
\* request j is the retry of request i: the same owner posts the same url
\* again after i failed on its embedding; the embedding service and the store
\* serve j, no other POST of that owner has stored the url, nothing is deleted
C4_Retry(i, j) ==
  /\ i < j
  /\ req[i].kind = "create" /\ req[i].pc = "done" /\ req[i].embFailed
  /\ req[j].kind = "create" /\ req[j].pc = "done"
  /\ req[j].user = req[i].user /\ req[j].url = req[i].url
  /\ ~req[j].embFailed /\ req[j].fault = "none"
  /\ \A k \in Reqs \ { i, j } :
       /\ req[k].kind # "delete"
       /\ ~(/\ req[k].kind = "create"
            /\ req[k].user = req[i].user /\ req[k].url = req[i].url
            /\ req[k].inserted # 0)

\* C4: when a POST /links failed on its embedding and the same owner posts the
\* same url again, the retry ends with 201 and the store holds exactly one
\* record for that url and owner, the one the retry inserted.
C4_RetryLeavesOneRecord ==
  \A i, j \in Reqs :
    C4_Retry(i, j) =>
      /\ req[j].status = 201
      /\ RowsOf(req[j].user, req[j].url) = { req[j].inserted }
      /\ Cardinality(RowsOf(req[j].user, req[j].url)) = 1

C4_Witness ==
  \E i, j \in Reqs :
    /\ C4_Retry(i, j)
    /\ req[j].status = 201
    /\ req[j].inserted \in DOMAIN links

\* ---- C5 ----------------------------------------------------------------
\* C5: when both fetches of the page fail, the record the POST stores has a
\* null title, a null image, a non-empty summary and a valid embedding that
\* was computed from the fallback content string.
C5_UnreachablePageRecord ==
  \A r \in Reqs :
    (/\ req[r].kind = "create"
     /\ { "meta", "content" } \subseteq req[r].degraded
     /\ req[r].inserted \in DOMAIN links) =>
      LET row == links[req[r].inserted]
      IN  /\ row.title = Null
          /\ row.image = Null
          /\ row.summary \notin { Null, "" }
          /\ row.embedding.present
          /\ row.embedding.dim = 1536
          /\ row.embedding.finite
          /\ row.embedding.src = << "Failed to extract content from", row.url >>

\* ---- C6 ----------------------------------------------------------------
\* C6: a failure of the summary call or of the tag call does not end the
\* POST: the summary is the placeholder, the tag list is [Article, Blog], the
\* request goes on to the embedding, the stored row carries the placeholder
\* and a valid embedding, and a request that ends in an error after such a
\* failure ended on the embedding or on a store statement.
C6_GenerationFailureDegrades ==
  \A r \in Reqs :
    req[r].kind = "create" =>
      /\ ("summary" \in req[r].degraded /\ req[r].pc \in { "tags", "embed", "insert" })
           => req[r].summary = "No summary available due to processing error."
      /\ ("tags" \in req[r].degraded /\ req[r].pc \in { "embed", "insert", "find", "upsert", "link" })
           => req[r].tagList = << "Article", "Blog" >>
      /\ ("summary" \in req[r].degraded /\ req[r].inserted \in DOMAIN links)
           => /\ links[req[r].inserted].summary =
                   "No summary available due to processing error."
              /\ links[req[r].inserted].embedding.present
              /\ links[req[r].inserted].embedding.dim = 1536
              /\ links[req[r].inserted].embedding.finite
      /\ ("tags" \in req[r].degraded /\ req[r].pc = "done" /\ req[r].status = 201)
           => TagsOf(req[r].inserted) = { "Article", "Blog" }
      /\ (req[r].degraded # {} /\ req[r].pc = "done" /\ req[r].status # 201)
           => req[r].embFailed \/ req[r].fault \in { "insert", "find", "attach" }

\* both generation calls failed and the POST was answered 201
C6_Witness ==
  \E r \in Reqs :
    /\ req[r].kind = "create" /\ req[r].pc = "done" /\ req[r].status = 201
    /\ { "summary", "tags" } \subseteq req[r].degraded
    /\ req[r].inserted \in DOMAIN links

\* ---- C7 ----------------------------------------------------------------
\* C7: when attaching the tags fails after the row was inserted, the POST
\* attaches them again (a second call of createTagsForLink) and the row stays.
C7_AttachFailureRetried ==
  [][\A r \in Reqs :
       (req[r].kind = "create" /\ req[r].fault # "attach"
        /\ req'[r].fault = "attach") =>
         /\ req'[r].calls >= 2
         /\ req'[r].inserted \in DOMAIN links']_vars

\* ---- C8 ----------------------------------------------------------------
\* C8: the tags of every record are vocabulary names, at most 5 of them.
C8_TagsWithinVocabulary ==
  \A id \in DOMAIN links :
    /\ TagsOf(id) \subseteq Range(AVAILABLE_TAGS)
    /\ Cardinality(TagsOf(id)) <= 5

\* ---- C9 ----------------------------------------------------------------
\* every name the answer of the service carries, whichever parser reads it
C9_Named(resp) == Range(resp.items) \cup Range(resp.split)

C9_InVocabulary(name) ==
  \E v \in Range(AVAILABLE_TAGS) : ToLower(v) = ToLower(name)

\* C9: whatever the generation service answers, generateTags returns between
\* one and five names, each a vocabulary name in its canonical spelling that
\* matches, case-insensitively, a name of the answer - or [Article, Blog],
\* which it returns whenever no name of the answer is in the vocabulary.
C9_GenerateTagsWithinVocabulary ==
  tagOut.done =>
    /\ Len(tagOut.tags) \in 1..5
    /\ \A k \in 1..Len(tagOut.tags) : tagOut.tags[k] \in Range(AVAILABLE_TAGS)
    /\ \/ tagOut.tags = << "Article", "Blog" >>
       \/ \A k \in 1..Len(tagOut.tags) :
            \E name \in C9_Named(tagResp) : ToLower(name) = ToLower(tagOut.tags[k])
    /\ (\A name \in C9_Named(tagResp) : ~C9_InVocabulary(name))
         => tagOut.tags = << "Article", "Blog" >>

\* the answer is an array of more than five names in another casing, with a
\* name outside the vocabulary among them, and five canonical names come back
C9_Witness ==
  /\ tagOut.done
  /\ tagResp.kind = "array"
  /\ Len(tagResp.items) > 5
  /\ tagResp.items[1] = "Podcast"
  /\ \A k \in 2..Len(tagResp.items) : tagResp.items[k] = "NEWS"
  /\ tagOut.tags = << "News", "News", "News", "News", "News" >>

\* ---- C10 ---------------------------------------------------------------
\* C10: the rows match_links returns are in non-increasing order of
\* similarity, the similarity reported for a row is that of the stored
\* embedding to the query, and it is at least the threshold.
C10_SortedAboveThreshold ==
  mResult.done =>
    /\ \A k \in 1..(Len(mResult.rows) - 1) :
         mResult.rows[k].similarity >= mResult.rows[k + 1].similarity
    /\ \A k \in 1..Len(mResult.rows) :
         /\ mResult.rows[k].id \in DOMAIN links
         /\ mResult.rows[k].similarity =
              Cosine(links[mResult.rows[k].id].embedding.dir, mq.dir)
         /\ mResult.rows[k].similarity >= mq.threshold

\* two rows of different similarity come back and a third row of the caller
\* stays below the threshold
C10_Witness ==
  /\ mResult.done
  /\ Len(mResult.rows) = 2
  /\ mResult.rows[1].similarity > mResult.rows[2].similarity
  /\ mq.count > 2
  /\ \E id \in DOMAIN links :
       /\ links[id].user = mq.user
       /\ Cosine(links[id].embedding.dir, mq.dir) <= mq.threshold

\* ---- C11 ---------------------------------------------------------------
\* the rows of the caller, and the ids a call of match_links returned
C11_Owned == { id \in DOMAIN links : links[id].user = mq.user }
C11_Returned == { mResult.rows[k].id : k \in 1..Len(mResult.rows) }

C12_TiesByRecency ==
  mResult.done =>
    /\ \A k \in 1..(Len(mResult.rows) - 1) :
         mResult.rows[k].similarity = mResult.rows[k + 1].similarity =>
           links[mResult.rows[k].id].createdAt
             > links[mResult.rows[k + 1].id].createdAt
    /\ \A k \in 1..Len(mResult.rows) :
         \A id \in C11_Owned \ C11_Returned :
           Cosine(links[id].embedding.dir, mq.dir) = mResult.rows[k].similarity =>
             links[id].createdAt < links[mResult.rows[k].id].createdAt

\* ---- C14 ---------------------------------------------------------------
\* the link a PUT or DELETE names exists and is the requesting user's
C14_Owned(r) ==
  req[r].id \in DOMAIN links /\ links[req[r].id].user = req[r].user

\* C14: when a PUT /links/:id or DELETE /links/:id looks up a link its user
\* does not own, the request ends there, with 404 (500 if the lookup itself
\* fails), and links, link_to_tag and tags are unchanged.
C14_NotOwnedIs404 ==
  [][\A r \in Reqs :
       (/\ req[r].kind \in { "update", "delete" }
        /\ req[r].pc \in { "uFind", "dFind" }
        /\ ~C14_Owned(r)
        /\ req'[r] # req[r]) =>
         /\ req'[r].pc = "done"
         /\ req'[r].status \in { 404, 500 }
         /\ req'[r].fault = "none" => req'[r].status = 404
         /\ UNCHANGED << links, linkToTag, tags >>]_vars

\* bob's PUT and bob's DELETE of a tagged link of alice were both answered 404
C14_Witness ==
  \E u, d \in Reqs :
    /\ req[u].kind = "update" /\ req[u].pc = "done" /\ req[u].status = 404
    /\ req[d].kind = "delete" /\ req[d].pc = "done" /\ req[d].status = 404
    /\ req[u].id = req[d].id /\ req[u].id \in DOMAIN links
    /\ links[req[u].id].user # req[u].user
    /\ links[req[d].id].user # req[d].user
    /\ \E p \in linkToTag : p[1] = req[u].id

\* ---- C17 ---------------------------------------------------------------
\* C17: when two callers of createTagsForLink upsert the same new tag name at
\* once, the name ends up in the tag table (once: name is UNIQUE) and neither
\* caller is failed by the other's insert.
C17_ConcurrentUpsertNoError ==
  \A r \in Reqs :
    req[r].kind = "create" =>
      /\ req[r].fault # "conflict"
      /\ req[r].status = 201 => TagsOf(req[r].inserted) \subseteq tags

\* ---- C19 ---------------------------------------------------------------
\* C19: whatever the fetch of the page does, extractUrlContent returns a text
\* that is neither empty nor blank - the failure string when the fetch fails,
\* the no-content string when the page has no text - and does not end the
\* request: the summary, tag and embedding calls are issued, and the stored
\* embedding is computed from that text.
C19_ContentNeverEmpty ==
  \A r \in Reqs :
    req[r].kind = "create" =>
      /\ req[r].pc \in { "summary", "tags", "embed", "insert" } =>
           /\ req[r].content \notin { << >>, << "   " >> }
           /\ "content" \in req[r].degraded =>
                req[r].content = << "Failed to extract content from", req[r].url >>
      /\ (req[r].pc = "done" /\ req[r].status # 400) =>
           { "summary", "tags", "embed" } \subseteq req[r].called
      /\ req[r].inserted \in DOMAIN links =>
           links[req[r].inserted].embedding.src \notin { << >>, << "   " >> }

\* the page had only white space and the record was stored with the
\* embedding of the no-content string
C19_Witness ==
  \E r \in Reqs :
    /\ req[r].kind = "create" /\ req[r].pc = "done" /\ req[r].status = 201
    /\ req[r].inserted \in DOMAIN links
    /\ links[req[r].inserted].title = "Page title"
    /\ links[req[r].inserted].image = Null
    /\ links[req[r].inserted].embedding.src =
         << "Could not extract meaningful content from", req[r].url >>

\* ---- C20 ---------------------------------------------------------------
\* C20: in POST /links the tag call does not wait for the summary call:
\* whenever the summary call is pending the tag call has been issued as well.
C20_SummaryAndTagsConcurrent ==
  \A r \in Reqs :
    (req[r].kind = "create" /\ req[r].pc = "summary") => "tags" \in req[r].called

\* ---- C13 ---------------------------------------------------------------
\* C13: every record a handler lists or hands to the chat - GET /links,
\* GET /links/:id, GET /tags/:tagName/links, the search of POST /chat - is a
\* record of the requesting user.
C13_ReadsAreOwnerScoped ==
  \A r \in Reqs :
    \A k \in 1..Len(req[r].out) :
      /\ req[r].out[k].id \in DOMAIN links
      /\ links[req[r].out[k].id].user = req[r].user

\* a chat of alice got her record as context while the store holds a record
\* of bob that is as close to the query and carries the same tags
C13_Witness ==
  \E r \in Reqs :
    /\ req[r].kind = "chat" /\ req[r].pc = "done" /\ req[r].status = 200
    /\ Len(req[r].out) = 1
    /\ \E id \in DOMAIN links :
         /\ links[id].user # req[r].user
         /\ links[id].embedding = links[req[r].out[1].id].embedding
         /\ TagsOf(id) = TagsOf(req[r].out[1].id)
         /\ TagsOf(id) # {}

\* ---- C15 ---------------------------------------------------------------
\* C15: when the search of a chat returned no record, the next step of the
\* request answers 200 with an answer that is not empty and an empty list of
\* records, whatever the generation service does.
C15_EmptyRetrievalStillAnswers ==
  [][\A r \in Reqs :
       (/\ req[r].kind = "chat" /\ req[r].pc = "cAnswer"
        /\ req[r].out = << >>
        /\ req'[r] # req[r]) =>
         /\ req'[r].pc = "done" /\ req'[r].status = 200
         /\ req'[r].answer \notin { Null, "" }
         /\ req'[r].out = << >>]_vars

\* the owner has records, none above the threshold, and the chat was
\* answered with the service's text
C15_Witness ==
  \E r \in Reqs :
    /\ req[r].kind = "chat" /\ req[r].pc = "done" /\ req[r].status = 200
    /\ req[r].out = << >>
    /\ req[r].answer = "Your links say so."
    /\ \E id \in DOMAIN links : links[id].user = req[r].user

\* ---- C16 ---------------------------------------------------------------
\* C16: a chat whose generation call errored or came back without content is
\* answered 200 with the fallback string of that case and the records the
\* search returned.
C16_AnswerFallback ==
  [][\A r \in Reqs :
       (/\ req[r].kind = "chat" /\ req[r].pc = "cAnswer"
        /\ "answer" \in req'[r].degraded) =>
         /\ req'[r].pc = "done" /\ req'[r].status = 200
         /\ req'[r].answer \in
              { "I could not generate a response.",
                "Sorry, I encountered an error while generating a response. Please try again later." }
         /\ req'[r].out = req[r].out]_vars

\* the generation call failed and the chat was answered with the fallback
\* and two ranked records
C16_Witness ==
  \E r \in Reqs :
    /\ req[r].kind = "chat" /\ req[r].pc = "done" /\ req[r].status = 200
    /\ "answer" \in req[r].degraded
    /\ req[r].answer =
         "Sorry, I encountered an error while generating a response. Please try again later."
    /\ Len(req[r].out) = 2

\* ---- C18 ---------------------------------------------------------------
\* C18: no step of a GET /links/preview changes links, tags or link_to_tag,
\* and a preview issues the two fetches and the summary and tag calls only,
\* never the embedding call.
C18_PreviewPersistsNothing ==
  [][\A r \in Reqs :
       (req'[r].kind = "preview" /\ req'[r] # req[r]) =>
         /\ UNCHANGED << links, tags, linkToTag >>
         /\ req'[r].called \subseteq { "meta", "content", "summary", "tags" }
         /\ req'[r].embedding = NoEmbedding]_vars

\* a preview was answered with the default tags, which are not in the tag
\* table, on a store that holds tagged records
C18_Witness ==
  \E r \in Reqs :
    /\ req[r].kind = "preview" /\ req[r].pc = "done" /\ req[r].status = 200
    /\ req[r].tagList = << "Article", "Blog" >>
    /\ "Article" \notin tags
    /\ linkToTag # {}

\* ---- C21 ---------------------------------------------------------------
\* C21: a request whose url is no URL (POST /links, GET /links/preview) or
\* whose query is empty (POST /chat) is answered with a 4xx status and has
\* issued no fetch and no generation call.
C21_MalformedInputRejected ==
  \A r \in Reqs :
    (\/ req[r].kind \in { "create", "preview" } /\ req[r].url = BadUrl
     \/ req[r].kind = "chat" /\ req[r].param = "") =>
      /\ req[r].pc = "done"
      /\ req[r].status \in 400..499
      /\ req[r].called = {}

\* ---- C22 ---------------------------------------------------------------
\* C22: whatever POST /links and PUT /links/:id requests have run, the tag
\* table holds no two names that differ only by letter case.
C22_NoCaseDuplicates ==
  \A a, b \in tags : ToLower(a) = ToLower(b) => a = b

\* ---- C24 ---------------------------------------------------------------
\* C24: for every answer of the generation service generateTags returns a
\* list of at least 2 and at most 5 tags.
C24_BetweenTwoAndFiveTags ==
  tagOut.done => Len(tagOut.tags) \in 2..5

\* ---- C23 ---------------------------------------------------------------
\* a header that carries a token the server accepts
C23_ValidHeader(header) ==
  \/ JwtVerify(TokenOf(header)) # Null
  \/ env.supabase /\ SupabaseGetUser(TokenOf(header)) # Null

\* C23: on a server whose JWT_SECRET is set, a request to any route other
\* than register and login that carries no valid Authorization header is
\* answered 401 and its handler is not called.
C23_BearerTokenRequired ==
  \A r \in Reqs :
    (/\ env.jwtSecret
     /\ req[r].kind \in { route.handler : route \in Routes } \ { "register", "login" }
     /\ req[r].pc # "auth"
     /\ ~C23_ValidHeader(req[r].param)) =>
      /\ req[r].pc = "done"
      /\ req[r].status = 401
      /\ "handler" \notin req[r].called

\* ---- C26 ---------------------------------------------------------------
\* C26: with two POST /links in flight, the record a request reads back
\* after its INSERT, attaches its tags to and returns with 201 is the record
\* this request inserted.
C26_ReadsBackOwnRecord ==
  \A r \in Reqs :
    (req[r].kind = "create" /\ req[r].id # 0) => req[r].id = req[r].inserted

\* ---- C25 ---------------------------------------------------------------
\* C25: when every awaited call returns or fails, every POST /links, alone
\* or beside another one, ends with a response, 201 or an error status, and
\* a request that has responded does nothing more.
C25_EveryIngestionResponds ==
  /\ \A r \in Reqs :
       (req[r].kind = "create") ~>
         (/\ req[r].pc = "done"
          /\ (req[r].status = 201 \/ req[r].status \in 400..599))
  /\ [][\A r \in Reqs : req[r].pc = "done" => req'[r] = req[r]]_vars

\* two requests ran side by side: one was answered 201, the other lost the
\* insert of a new tag name to it and was answered 500
C25_Witness ==
  /\ req[1].kind = "create" /\ req[1].pc = "done" /\ req[1].status = 201
  /\ req[2].kind = "create" /\ req[2].pc = "done" /\ req[2].status = 500
  /\ req[2].fault = "conflict"

\* ---- C27 ---------------------------------------------------------------
\* two PUT for the same link have both been answered 200: the link carries
\* the tags of one of the two bodies
C27_NoMixture ==
  (\A r \in 1..2 : req[r].kind = "update" /\ req[r].pc = "done" /\ req[r].status = 200)
    => TagsOf(1) \in { Range(env.bodies[1]), Range(env.bodies[2]) }

\* a PUT has failed while attaching its tags and the other PUT has not
\* touched the store yet: the link carries the tags it had or the tags of
\* the failed body
C27_NoPartialSet ==
  \A r \in 1..2 :
    (/\ req[r].kind = "update" /\ req[r].pc = "done"
     /\ req[r].fault \in { "attach", "conflict" }
     /\ req[3 - r].pc = "uFind") =>
      TagsOf(1) \in { { "Image" }, Range(env.bodies[r]) }

\* C27: replacing the tags of a link is atomic: two interleaved PUT that
\* both answer 200 leave the link with the tags of one of them, never a
\* mixture, and a PUT whose tag creation fails part-way leaves no partial tag
\* set.
C27_TagReplacementAtomic == C27_NoMixture /\ C27_NoPartialSet

\* ---- C28 ---------------------------------------------------------------
\* C28: no step of a PUT /links/:id adds or removes a record or changes the
\* url, domain, image, owner, embedding or creation time of one; it changes
\* no field of any record but its own, and it calls neither a fetch nor the
\* generation or embedding service.
C28_UpdateChangesTitleSummaryTags ==
  [][\A r \in Reqs :
       (req'[r].kind = "update" /\ req'[r] # req[r]) =>
         /\ DOMAIN links' = DOMAIN links
         /\ \A id \in DOMAIN links :
              \* url, domain, image, owner, embedding, creation time
              /\ links'[id] = [links[id] EXCEPT !.title = links'[id].title,
                                                !.summary = links'[id].summary]
              /\ id # req'[r].id => links'[id] = links[id]
         /\ req'[r].called = {}]_vars

\* the owner has edited the summary and replaced the tags of a record; the
\* record still has the embedding of the page text
C28_Witness ==
  \E r \in Reqs :
    /\ req[r].kind = "update" /\ req[r].pc = "done" /\ req[r].status = 200
    /\ req[r].id \in DOMAIN links
    /\ links[req[r].id].user = req[r].user
    /\ links[req[r].id].summary = "New summary"
    /\ links[req[r].id].embedding.src = << "Body text" >>
    /\ TagsOf(req[r].id) = { "news", "Podcast" }

\* ---- C29 ---------------------------------------------------------------
\* the step that deletes: the record and its link_to_tag rows go, every
\* other record, every other link_to_tag row and every tag stays
C29_DeleteStep ==
  \A r \in Reqs :
    (req[r].kind = "delete" /\ req[r].pc = "dDelete" /\ req'[r].status = 200) =>
      /\ DOMAIN links' = DOMAIN links \ { req[r].id }
      /\ \A id \in DOMAIN links' : links'[id] = links[id]
      /\ linkToTag' = { p \in linkToTag : p[1] # req[r].id }
      /\ tags' = tags

\* after a DELETE answered 200 the record is in no list a handler returns and
\* asking for it by id gives no record
C29_Gone ==
  \A r \in Reqs :
    (req[r].kind = "delete" /\ req[r].pc = "done" /\ req[r].status = 200) =>
      /\ req[r].id \notin DOMAIN links
      /\ TagsOf(req[r].id) = {}
      /\ \A q \in Reqs :
           /\ \A k \in 1..Len(req[q].out) : req[q].out[k].id # req[r].id
           /\ (req[q].kind = "getLink" /\ req[q].id = req[r].id /\ req[q].pc = "done")
                => req[q].status \in { 404, 500 }

\* C29: a DELETE /links/:id answered 200 removes the record and all of its
\* link_to_tag rows and nothing else, and afterwards GET /links,
\* GET /links/:id, GET /tags/:tagName/links and the search of POST /chat do
\* not return the record.
C29_DeleteRemovesLinkOnly == [][C29_DeleteStep]_vars /\ []C29_Gone

\* alice deleted one of her two records tagged News; her list by that tag
\* then shows the other one
C29_Witness ==
  /\ req[1].kind = "delete" /\ req[1].pc = "done" /\ req[1].status = 200
  /\ req[2].kind = "byTag" /\ req[2].pc = "done" /\ req[2].status = 200
  /\ req[2].param = "News"
  /\ Len(req[2].out) = 1
  /\ nextId = 3

\* ---- C30 ---------------------------------------------------------------
\* a DELETE of the record has been answered 200
C30_Deleted(id) ==
  \E d \in Reqs :
    req[d].kind = "delete" /\ req[d].status = 200 /\ req[d].id = id

\* the record is in every list GET /links gives its owner and match_links
\* takes it for a query of that owner in the direction of its embedding
C30_Retrievable(id, user) ==
  /\ id \in DOMAIN links
  /\ \A o \in NewestFirst({ k \in DOMAIN links : links[k].user = user }) :
       id \in Range(o)
  /\ Qualifies(links[id], [dir |-> links[id].embedding.dir,
                           threshold |-> ChatThreshold, count |-> ChatCount,
                           user |-> user])

\* C30: two POST /links of one owner for one url that were both answered 201
\* have inserted two records with different ids, and each of them, unless it
\* was deleted since, is listed by GET /links and eligible for the search.
C30_NoDeduplicationByUrl ==
  \A i, j \in Reqs :
    (/\ i # j
     /\ req[i].kind = "create" /\ req[i].pc = "done" /\ req[i].status = 201
     /\ req[j].kind = "create" /\ req[j].pc = "done" /\ req[j].status = 201
     /\ req[i].user = req[j].user /\ req[i].url = req[j].url) =>
      /\ req[i].inserted # req[j].inserted
      /\ ~C30_Deleted(req[i].inserted) =>
           /\ C30_Retrievable(req[i].inserted, req[i].user)
           /\ links[req[i].inserted].url = req[i].url

\* alice has posted the same url twice and holds two records of it
C30_Witness ==
  /\ req[1].kind = "create" /\ req[1].pc = "done" /\ req[1].status = 201
  /\ req[2].kind = "create" /\ req[2].pc = "done" /\ req[2].status = 201
  /\ req[2].user = req[1].user /\ req[2].url = req[1].url
  /\ Cardinality(RowsOf(req[1].user, req[1].url)) = 2

====
